---- MODULE Spec2Model ----
(***************************************************************************)
(* Louvain community detection of src/python/louvain.py: the Structure     *)
(* object (adjacency, communities, caches, origin map) and the driver      *)
(* Structure.louvain.  Weights are the unit weights the constructor        *)
(* assigns, so every weight, degree and m is an integer; modularity and    *)
(* deltaQ values are exact rationals <<num, den>> with den > 0.            *)
(* Ids are 0-based as in the source: per-node tables are functions over    *)
(* 0..n-1; Python lists and insertion-ordered dicts whose order the code   *)
(* depends on are sequences (a dict is a sequence of <<key, value>>).      *)
(***************************************************************************)
EXTENDS Integers, Sequences, FiniteSets

\* ---------------------------------------------------------------- bounds
\* largest nodes_len of an input graph
MaxNodes == 4

\* most edges of an input graph
MaxEdges == 4

\* direct use of the object: largest nodes_len and most calls made on it
ApiMaxNodes == 3
MaxCalls == 3

\* most moveNodeTo and merge_nodes calls of a run that are followed
MaxRunCalls == 40

\* largest weight an input edge carries
MaxWeight == 2

\* longest list whose every shuffle outcome is drawn
MaxShuffled == 6

\* resolutions a caller passes, as exact rationals
Resolutions == { <<1, 2>>, <<1, 1>>, <<2, 1>> }

\* the two graphs of __main__ and the resolution 0.414 of its last run
DemoEdges == << <<0, 1>>, <<0, 2>>, <<2, 3>>, <<3, 4>>, <<3, 5>>, <<4, 5>> >>
ComplexEdges ==
    << <<0, 2>>, <<0, 3>>, <<0, 5>>, <<1, 2>>, <<1, 4>>, <<1, 7>>, <<2, 4>>, <<2, 5>>,
       <<2, 6>>, <<3, 7>>, <<4, 10>>, <<5, 7>>, <<5, 11>>, <<6, 7>>, <<6, 11>>, <<8, 9>>,
       <<8, 10>>, <<8, 11>>, <<8, 14>>, <<8, 15>>, <<9, 12>>, <<9, 14>>, <<10, 11>>,
       <<10, 12>>, <<10, 13>>, <<10, 14>>, <<11, 13>> >>
ComplexResolution == <<207, 500>>

VARIABLES
    self,               \* the Structure object, a record of its attributes
    currentResolution,  \* argument of Structure.louvain
    pc,                 \* position of the run
    pending,            \* nodes of the shuffled list not yet visited in this pass
    localChange,        \* local of Structure.louvain
    someChange,         \* local of Structure.louvain
    level,              \* number of merge_nodes calls so far
    calls,              \* number of moveNodeTo and merge_nodes calls made on the object
    prev,               \* the operation that produced this state
    edges,              \* the edges argument of the constructor
    randomize,          \* argument of Structure.louvain
    shuffled,           \* the list nodes after the shuffle, from the element the for loop is at
    returned            \* what Structure.louvain has returned

vars == << self, currentResolution, pc, pending, localChange, someChange, level, calls, prev,
           edges, randomize, shuffled, returned >>

\* ------------------------------------------------------- lists and dicts
Nodes(n) == 0..(n - 1)

\* sum of the weights of a list of <<key, weight>> pairs
RECURSIVE SumWeights(_)
SumWeights(s) == IF s = << >> THEN 0 ELSE s[1][2] + SumWeights(Tail(s))

\* sum of the values of a function with a finite domain
RECURSIVE SumFn(_)
SumFn(f) ==
    IF DOMAIN f = {} THEN 0
    ELSE LET x == CHOOSE x \in DOMAIN f : TRUE
         IN f[x] + SumFn([y \in DOMAIN f \ {x} |-> f[y]])

\* key in dict
DictHas(d, k) == \E i \in 1..Len(d) : d[i][1] = k

\* dict[k]
DictGet(d, k) == d[CHOOSE i \in 1..Len(d) : d[i][1] = k][2]

\* dict[k] = val : an existing key keeps its position, a new key goes last
DictSet(d, k, val) ==
    IF DictHas(d, k)
    THEN [i \in 1..Len(d) |-> IF d[i][1] = k THEN <<k, val>> ELSE d[i]]
    ELSE Append(d, <<k, val>>)

\* del dict[k]
DictDel(d, k) == SelectSeq(d, LAMBDA e : e[1] # k)

\* list.remove(x): drops the first occurrence
RemoveFirst(s, x) ==
    LET i == CHOOSE i \in 1..Len(s) : s[i] = x /\ \A j \in 1..(i - 1) : s[j] # x
    IN SubSeq(s, 1, i - 1) \o SubSeq(s, i + 1, Len(s))

\* exact rationals; the denominators are cleared of their common divisor
\* before a cross multiplication
RECURSIVE Gcd(_, _)
Gcd(a, b) == IF b = 0 THEN a ELSE Gcd(b, a % b)

Scale(a, b) == IF Gcd(a[2], b[2]) = 0 THEN 0 ELSE b[2] \div Gcd(a[2], b[2])

RatLess(a, b) == a[1] * Scale(a, b) < b[1] * Scale(b, a)
RatEq(a, b) == a[1] * Scale(a, b) = b[1] * Scale(b, a)
RatAdd(a, b) ==
    << a[1] * Scale(a, b) + b[1] * Scale(b, a), a[2] * Scale(a, b) >>
Zero == <<0, 1>>
One == <<1, 1>>

\* Python values: None for last_modularity and bestCommunity, truthiness
None == << >>
NoBest == -1
TruthyFloat(x) == x # None /\ x[1] # 0
TruthyInt(x) == x # NoBest /\ x # 0

\* ------------------------------------------------------------ init_caches
\* node_communities_compute: neighbour weights grouped by community, in
\* the order the communities are first met in the adjacency list
RECURSIVE GroupFold(_, _, _)
GroupFold(d, adj, comm) ==
    IF adj = << >> THEN d
    ELSE LET community_index == comm[adj[1][1]]
             weight == adj[1][2]
         IN GroupFold(IF DictHas(d, community_index)
                      THEN DictSet(d, community_index, DictGet(d, community_index) + weight)
                      ELSE Append(d, <<community_index, weight>>),
                      Tail(adj), comm)

\* node_communities_compute that lists every community, neighbour or not
node_communities_compute_every_community(S, node_index) ==
    [i \in 1..Cardinality(DOMAIN S.communities) |-> <<i - 1, 1>>]

node_communities_compute(S, node_index) ==
    GroupFold(<< >>, S.edges[node_index], S.node_community)

RECURSIVE SumDegrees(_, _)
SumDegrees(degrees, nodes) ==
    IF nodes = << >> THEN 0 ELSE degrees[nodes[1]] + SumDegrees(degrees, Tail(nodes))

\* community_total_degree_compute that counts the members
community_total_degree_compute_counts(S, community_index) ==
    Len(S.communities[community_index].nodes)

community_total_degree_compute(S, community_index) ==
    SumDegrees(S.node_degrees, S.communities[community_index].nodes)

shared_degree(S, node_index, community_index) ==
    SumWeights(SelectSeq(S.edges[node_index],
                         LAMBDA e : S.node_community[e[1]] = community_index))

\* init_caches with node degrees that leave out node_selfreference
init_caches_edges_only(S, n) ==
    LET S1 == [S EXCEPT !.node_degrees = [v \in Nodes(n) |-> SumWeights(S.edges[v])]]
        S2 == [S1 EXCEPT !.communities =
                   [i \in DOMAIN S1.communities |->
                       [S1.communities[i] EXCEPT !.total_degree =
                           community_total_degree_compute(S1, S1.communities[i].id)]]]
    IN [S2 EXCEPT !.node_communities_weights =
           [v \in Nodes(n) |-> node_communities_compute(S2, v)]]

init_caches(S, n) ==
    LET S1 == [S EXCEPT !.node_degrees =
                   [v \in Nodes(n) |-> S.node_selfreference[v] + SumWeights(S.edges[v])]]
        S2 == [S1 EXCEPT !.communities =
                   [i \in DOMAIN S1.communities |->
                       [S1.communities[i] EXCEPT !.total_degree =
                           community_total_degree_compute(S1, S1.communities[i].id)]]]
    IN [S2 EXCEPT !.node_communities_weights =
           [v \in Nodes(n) |-> node_communities_compute(S2, v)]]

\* ------------------------------------------------------------- __init__
\* for e in edges: both endpoints get the other one appended, weight 1.0
\* AddEdges that appends an edge to the list of its first endpoint only
RECURSIVE AddEdges_one_way(_, _)
AddEdges_one_way(adj, el) ==
    IF el = << >> THEN adj
    ELSE AddEdges_one_way([adj EXCEPT ![el[1][1]] = Append(@, <<el[1][2], 1>>)], Tail(el))

RECURSIVE AddEdges(_, _)
AddEdges(adj, el) ==
    IF el = << >> THEN adj
    ELSE LET e == el[1]
             a1 == [adj EXCEPT ![e[2]] = Append(@, <<e[1], 1>>)]
             a2 == [a1 EXCEPT ![e[1]] = Append(@, <<e[2], 1>>)]
         IN AddEdges(a2, Tail(el))

StructureInit(n, el) ==
    LET adj == AddEdges([v \in Nodes(n) |-> << >>], el)
    IN init_caches(
         [ communities |-> [i \in Nodes(n) |-> [id |-> i, nodes |-> <<i>>, total_degree |-> 0]],
           edges |-> adj,
           orig_edges |-> adj,
           m |-> Len(el) * 2,
           node_community |-> [i \in Nodes(n) |-> i],
           node_selfreference |-> [i \in Nodes(n) |-> 0],
           origin_nodes_community |-> [i \in Nodes(n) |-> i],
           last_modularity |-> None,
           node_degrees |-> << >>,
           node_communities_weights |-> << >> ], n)

\* --------------------------------------------------------------------- q
\* q without the term of the degrees
q_shared_only(S, node_index, community_index, shared, resolution) ==
    LET current_community == S.node_community[node_index]
        d_ij == shared * 2
    IN IF current_community = community_index /\ Len(S.communities[community_index].nodes) = 1
       THEN Zero
       ELSE << resolution[1] * d_ij * S.m, resolution[2] * S.m * S.m >>

q(S, node_index, community_index, shared, resolution) ==
    LET current_community == S.node_community[node_index]
        d_i == S.node_degrees[node_index]
        d_j == IF current_community = community_index
               THEN S.communities[community_index].total_degree - d_i
               ELSE S.communities[community_index].total_degree
        d_ij == shared * 2
    IN IF current_community = community_index /\ Len(S.communities[community_index].nodes) = 1
       THEN Zero
       ELSE << resolution[1] * d_ij * S.m - resolution[2] * 2 * d_i * d_j,
               resolution[2] * S.m * S.m >>

\* ---------------------------------------------------- updateBestCommunity
\* BestFold in which a later candidate with an equal score replaces the best
RECURSIVE BestFold_last_wins(_, _, _, _, _, _)
BestFold_last_wins(S, node_index, resolution, d, best, bestCommunity) ==
    IF d = << >> THEN bestCommunity
    ELSE LET community_index == d[1][1]
             shared == d[1][2]
             qValue == q(S, node_index, community_index, shared, resolution)
         IN IF shared > 0 /\ RatLess(Zero, qValue) /\ ~RatLess(qValue, best)
            THEN BestFold_last_wins(S, node_index, resolution, Tail(d), qValue, community_index)
            ELSE BestFold_last_wins(S, node_index, resolution, Tail(d), best, bestCommunity)

RECURSIVE BestFold(_, _, _, _, _, _)
BestFold(S, node_index, resolution, d, best, bestCommunity) ==
    IF d = << >> THEN bestCommunity
    ELSE LET community_index == d[1][1]
             shared == d[1][2]
             qValue == q(S, node_index, community_index, shared, resolution)
         IN IF shared > 0 /\ RatLess(best, qValue)
            THEN BestFold(S, node_index, resolution, Tail(d), qValue, community_index)
            ELSE BestFold(S, node_index, resolution, Tail(d), best, bestCommunity)

\* updateBestCommunity that scores every community, sharing an edge or not
updateBestCommunity_scores_all(S, node_index, resolution) ==
    BestFold(S, node_index, resolution,
             [i \in 1..Cardinality(DOMAIN S.communities) |-> <<i - 1, 1>>], Zero, NoBest)

updateBestCommunity(S, node_index, resolution) ==
    BestFold(S, node_index, resolution, S.node_communities_weights[node_index], Zero, NoBest)

\* ------------------------------------------------------------- moveNodeTo
\* UpdateNeighbor without the del of an entry that reached zero
UpdateNeighbor_keeps_zero(d, old_community, community, weight) ==
    LET d1 == IF DictHas(d, old_community)
              THEN DictSet(d, old_community, DictGet(d, old_community) - weight)
              ELSE d
    IN IF DictHas(d1, community)
       THEN DictSet(d1, community, DictGet(d1, community) + weight)
       ELSE Append(d1, <<community, weight>>)

\* the two dict updates made for one neighbour of the moved node
UpdateNeighbor(d, old_community, community, weight) ==
    LET d1 == IF DictHas(d, old_community)
              THEN IF DictGet(d, old_community) - weight <= 0
                   THEN DictDel(d, old_community)
                   ELSE DictSet(d, old_community, DictGet(d, old_community) - weight)
              ELSE d
    IN IF DictHas(d1, community)
       THEN DictSet(d1, community, DictGet(d1, community) + weight)
       ELSE Append(d1, <<community, weight>>)

\* remove_node that leaves the member list as it is
remove_node_keeps(nodes, node) == nodes

\* Community.remove_node
remove_node(nodes, node) == RemoveFirst(nodes, node)

\* MoveFold that updates the table of every node, neighbour or not
RECURSIVE MoveFold_every_table(_, _, _, _)
MoveFold_every_table(ncw, adj, old_community, community) ==
    IF adj = << >> THEN ncw
    ELSE MoveFold_every_table([u \in DOMAIN ncw |->
                                  UpdateNeighbor(ncw[u], old_community, community, adj[1][2])],
                              Tail(adj), old_community, community)

\* for neighbor, weight in self.edges[node_index]: the neighbour's table is updated
RECURSIVE MoveFold(_, _, _, _)
MoveFold(ncw, adj, old_community, community) ==
    IF adj = << >> THEN ncw
    ELSE MoveFold([ncw EXCEPT ![adj[1][1]] =
                       UpdateNeighbor(@, old_community, community, adj[1][2])],
                  Tail(adj), old_community, community)

\* moveNodeTo that leaves the total degree of the old community as it is
moveNodeTo_keeps_old_degree(S, node_index, community) ==
    LET old_community == S.node_community[node_index]
        node_degree == S.node_degrees[node_index]
        c1 == [S.communities EXCEPT ![old_community].nodes = remove_node(@, node_index)]
        c2 == [c1 EXCEPT ![community].nodes = Append(@, node_index),
                         ![community].total_degree = @ + node_degree]
    IN [S EXCEPT !.communities = c2,
                 !.node_communities_weights =
                     MoveFold(@, S.edges[node_index], old_community, community),
                 !.node_community = [@ EXCEPT ![node_index] = community]]

moveNodeTo(S, node_index, community) ==
    LET old_community == S.node_community[node_index]
        node_degree == S.node_degrees[node_index]
        c1 == [S.communities EXCEPT ![old_community].nodes = remove_node(@, node_index),
                                    ![old_community].total_degree = @ - node_degree]
        c2 == [c1 EXCEPT ![community].nodes = Append(@, node_index),
                         ![community].total_degree = @ + node_degree]
    IN [S EXCEPT !.communities = c2,
                 !.node_communities_weights =
                     MoveFold(@, S.edges[node_index], old_community, community),
                 !.node_community = [@ EXCEPT ![node_index] = community]]

\* ------------------------------------------------------------ merge_nodes
\* community_id_map as a dict: old id -> dense new id, non-empty communities only
\* IdMapFold that gives an id to the empty communities too
RECURSIVE IdMapFold_keeps_empty(_, _, _)
IdMapFold_keeps_empty(S, i, d) ==
    IF i \notin DOMAIN S.communities THEN d
    ELSE IdMapFold_keeps_empty(S, i + 1, Append(d, <<S.communities[i].id, Len(d)>>))

RECURSIVE IdMapFold(_, _, _)
IdMapFold(S, i, d) ==
    IF i \notin DOMAIN S.communities THEN d
    ELSE IdMapFold(S, i + 1,
                   IF Len(S.communities[i].nodes) > 0
                   THEN Append(d, <<S.communities[i].id, Len(d)>>)
                   ELSE d)

community_id_map(S) == IdMapFold(S, 0, << >>)

\* edges_for_community: weights of the members' edges grouped by the new id
\* of the neighbour's community
RECURSIVE MemberFold(_, _, _, _)
MemberFold(S, map, nodes, d) ==
    IF nodes = << >> THEN d
    ELSE MemberFold(S, map, Tail(nodes),
                    GroupFold(d, S.edges[nodes[1]],
                              [x \in DOMAIN S.node_community |->
                                  DictGet(map, S.node_community[x])]))

edges_for_community(S, map, community_id) ==
    MemberFold(S, map, S.communities[community_id].nodes, << >>)

RECURSIVE SumSelf(_, _)
SumSelf(selfref, nodes) ==
    IF nodes = << >> THEN 0 ELSE selfref[nodes[1]] + SumSelf(selfref, Tail(nodes))

\* self_reference without the weight of the edges between the members
merged_self_reference_members_only(S, map, community_id, new_community_id) ==
    SumSelf(S.node_selfreference, S.communities[community_id].nodes)

\* self_reference of the new node: members' self references plus the
\* weight grouped under its own new id
merged_self_reference(S, map, community_id, new_community_id) ==
    LET efc == edges_for_community(S, map, community_id)
    IN SumSelf(S.node_selfreference, S.communities[community_id].nodes)
       + (IF DictHas(efc, new_community_id) THEN DictGet(efc, new_community_id) ELSE 0)

\* m accumulated over the items of every edges_for_community
merged_m(S, map) ==
    SumFn([j \in 1..Len(map) |-> SumWeights(edges_for_community(S, map, map[j][1]))])

\* the origin map left as it was before the aggregation
rewrite_origin_stale(S, map) == S.origin_nodes_community

\* every original node: old community of its current-level node -> new id
rewrite_origin(S, map) ==
    [i \in DOMAIN S.origin_nodes_community |->
        DictGet(map, S.node_community[S.origin_nodes_community[i]])]

\* merge_nodes that leaves the level as it is
merge_nodes_keeps_nodes(S) == S

merge_nodes(S) ==
    LET map == community_id_map(S)
        new_community_count == Len(map)
        old(j) == map[j + 1][1]
    IN init_caches(
         [S EXCEPT
            !.communities = [j \in Nodes(new_community_count) |->
                                [id |-> map[j + 1][2], nodes |-> <<map[j + 1][2]>>,
                                 total_degree |-> S.communities[old(j)].total_degree]],
            !.node_selfreference = [j \in Nodes(new_community_count) |->
                                       merged_self_reference(S, map, old(j), map[j + 1][2])],
            !.origin_nodes_community = rewrite_origin(S, map),
            !.edges = [j \in Nodes(new_community_count) |->
                          SelectSeq(edges_for_community(S, map, old(j)),
                                    LAMBDA e : e[1] # map[j + 1][2])],
            !.m = merged_m(S, map),
            !.node_community = [j \in Nodes(new_community_count) |-> j]],
         new_community_count)

\* ----------------------------------------------------- compute_modularity
\* weight of the edges of u that stay inside u's community, plus u's self reference
InWeight(S, u) ==
    SumWeights(SelectSeq(S.edges[u],
                         LAMBDA e : S.node_community[e[1]] = S.node_community[u]))
    + S.node_selfreference[u]

\* compute_modularity without its early return for m == 0
compute_modularity_unguarded(S, resolution) ==
    LET comms == { S.node_community[u] : u \in DOMAIN S.node_community }
        members(c) == { u \in DOMAIN S.node_community : S.node_community[u] = c }
        in_weight(c) == SumFn([u \in members(c) |-> InWeight(S, u)])
        tot_degree(c) == SumFn([u \in members(c) |-> S.node_degrees[u]])
    IN << SumFn([c \in comms |->
                   resolution[2] * in_weight(c) * S.m
                   - resolution[1] * tot_degree(c) * tot_degree(c)]),
          resolution[2] * S.m * S.m >>

\* Q = sum over communities of in_weight/2 / (m/2) - resolution * (tot_degree / m)^2
compute_modularity(S, resolution) ==
    IF S.m = 0 THEN Zero
    ELSE LET comms == { S.node_community[u] : u \in DOMAIN S.node_community }
             members(c) == { u \in DOMAIN S.node_community : S.node_community[u] = c }
             in_weight(c) == SumFn([u \in members(c) |-> InWeight(S, u)])
             tot_degree(c) == SumFn([u \in members(c) |-> S.node_degrees[u]])
         IN << SumFn([c \in comms |->
                        resolution[2] * in_weight(c) * S.m
                        - resolution[1] * tot_degree(c) * tot_degree(c)]),
               resolution[2] * S.m * S.m >>

\* ------------------------------------------------ compute_orig_modularity
\* current community of an original node
CurrentCom(S, node) == S.node_community[S.origin_nodes_community[node]]

\* k[u] is looked up for every original node, k has the nodes with an edge only
OrigModularityRaises(S) ==
    \E u \in DOMAIN S.origin_nodes_community : S.orig_edges[u] = << >>

compute_orig_modularity(S, resolution) ==
    LET orig == DOMAIN S.origin_nodes_community
        m2 == SumFn([u \in orig |-> Len(S.orig_edges[u])])
        comms == { CurrentCom(S, u) : u \in orig }
        members(c) == { u \in orig : CurrentCom(S, u) = c }
        in_weight(c) == SumFn([u \in members(c) |->
                            SumWeights(SelectSeq(S.orig_edges[u],
                                LAMBDA e : CurrentCom(S, e[1]) = CurrentCom(S, u)))])
        tot_degree(c) == SumFn([u \in members(c) |-> Len(S.orig_edges[u])])
    IN IF orig = {} THEN Zero
       ELSE << SumFn([c \in comms |->
                        resolution[2] * in_weight(c) * m2
                        - resolution[1] * tot_degree(c) * tot_degree(c)]),
               resolution[2] * m2 * m2 >>

\* ------------------------------------------------------------------ inputs
\* an input edge list: pairs u < v in ascending order, no loops, no duplicates
RECURSIVE SortedPairs(_)
SortedPairs(E) ==
    IF E = {} THEN << >>
    ELSE LET e == CHOOSE e \in E : \A f \in E : e[1] < f[1] \/ (e[1] = f[1] /\ e[2] <= f[2])
         IN <<e>> \o SortedPairs(E \ {e})

Pairs(n) == { e \in Nodes(n) \X Nodes(n) : e[1] < e[2] }

NoOp == [op |-> "init", node |-> -1, from |-> -1, to |-> -1, alone |-> FALSE]

\* the edge lists of at most MaxEdges pairs over n nodes
EdgeLists(n) ==
    { SortedPairs(E) : E \in { F \in SUBSET Pairs(n) : Cardinality(F) <= MaxEdges } }

\* an edge list with a weight added as third element to any of its edges
RECURSIVE Weighted(_)
Weighted(el) ==
    IF el = << >> THEN { << >> }
    ELSE { <<e>> \o rest :
             e \in {el[1]} \cup { Append(el[1], w) : w \in 2..MaxWeight },
             rest \in Weighted(Tail(el)) }

\* the objects Structure(nodes_len, edges) constructs
Inputs(max) ==
    UNION { { StructureInit(n, el) : el \in EdgeLists(n) } : n \in 0..max }

\* list(range(n))
Range(n) == [i \in 1..n |-> i - 1]

\* random.shuffle(nodes): a list of up to MaxShuffled elements takes every
\* order, drawn element by element while the for loop runs (no order is
\* fixed: << >>); of a longer list the ascending and the descending order
\* are drawn
shuffle(list) ==
    IF Len(list) <= MaxShuffled THEN { << >> }
    ELSE { list, [i \in 1..Len(list) |-> list[Len(list) + 1 - i]] }

\* the nodes the for loop can take next
NextNodes == IF shuffled = << >> THEN pending ELSE { Head(shuffled) } \cap pending

\* a function without a return statement returns None
PyNone == [none |-> TRUE, value |-> << >>]

\* =================================================== Structure.louvain run
\* Structure(nodes_len, edges).louvain(currentResolution, randomize) at the
\* first element of the first pass
StartRun(nodes_len, el, resolution, flag) ==
    /\ edges = el
    /\ self = StructureInit(nodes_len, el)
    /\ currentResolution = resolution
    /\ randomize = flag
    /\ pc = "visit"
    /\ pending = Nodes(nodes_len)
    /\ shuffled \in shuffle(Range(nodes_len))
    /\ localChange = FALSE
    /\ someChange = FALSE
    /\ level = 0
    /\ calls = 0
    /\ prev = NoOp
    /\ returned = PyNone

InitRun ==
    \E nodes_len \in 0..MaxNodes : \E el \in EdgeLists(nodes_len) :
        \E resolution \in Resolutions : \E flag \in BOOLEAN :
            StartRun(nodes_len, el, resolution, flag)

\* __main__, Restart 2: structure.louvain(1.0) on the 6-node graph
InitDemo == StartRun(6, DemoEdges, One, TRUE)

\* __main__, Restart 3: structure.louvain(0.414, False) on the 16-node graph
InitComplex == StartRun(16, ComplexEdges, ComplexResolution, FALSE)

\* the node stays: no best community, best community 0, or its own one
WillMove(S, node_index, resolution) ==
    LET bestCommunity == updateBestCommunity(S, node_index, resolution)
    IN TruthyInt(bestCommunity) /\ bestCommunity # S.node_community[node_index]

VisitStay(node_index) ==
    /\ pc = "visit"
    /\ node_index \in NextNodes
    /\ ~WillMove(self, node_index, currentResolution)
    /\ pending' = pending \ {node_index}
    /\ shuffled' = IF shuffled = << >> THEN shuffled ELSE Tail(shuffled)
    /\ prev' = [NoOp EXCEPT !.op = "stay", !.node = node_index]
    /\ UNCHANGED << self, currentResolution, pc, localChange, someChange, level, calls,
                    edges, randomize, returned >>

MoveRecord(S, node_index, community) ==
    [op |-> "move", node |-> node_index, from |-> S.node_community[node_index],
     to |-> community,
     alone |-> Len(S.communities[S.node_community[node_index]].nodes) = 1]

\* the node moves and the regression check passes
VisitMove(node_index) ==
    /\ pc = "visit"
    /\ node_index \in NextNodes
    /\ calls < MaxRunCalls
    /\ WillMove(self, node_index, currentResolution)
    /\ LET bestCommunity == updateBestCommunity(self, node_index, currentResolution)
           moved == moveNodeTo(self, node_index, bestCommunity)
           modularity == compute_modularity(moved, One)
       IN /\ ~OrigModularityRaises(moved)
          /\ ~(TruthyFloat(self.last_modularity) /\ RatLess(modularity, self.last_modularity))
          /\ self' = [moved EXCEPT !.last_modularity = modularity]
          /\ prev' = MoveRecord(self, node_index, bestCommunity)
    /\ localChange' = TRUE
    /\ pending' = pending \ {node_index}
    /\ shuffled' = IF shuffled = << >> THEN shuffled ELSE Tail(shuffled)
    /\ calls' = calls + 1
    /\ UNCHANGED << currentResolution, pc, someChange, level, edges, randomize, returned >>

\* the node moves and compute_orig_modularity raises KeyError in the print
VisitMoveKeyError(node_index) ==
    /\ pc = "visit"
    /\ node_index \in NextNodes
    /\ calls < MaxRunCalls
    /\ WillMove(self, node_index, currentResolution)
    /\ LET bestCommunity == updateBestCommunity(self, node_index, currentResolution)
           moved == moveNodeTo(self, node_index, bestCommunity)
       IN /\ OrigModularityRaises(moved)
          /\ self' = moved
          /\ prev' = MoveRecord(self, node_index, bestCommunity)
    /\ pc' = "KeyError"
    /\ calls' = calls + 1
    /\ UNCHANGED << currentResolution, pending, localChange, someChange, level,
                    edges, randomize, shuffled, returned >>

\* the node moves and the run raises "wrong modularity hase became smaller"
VisitMoveRegression(node_index) ==
    /\ pc = "visit"
    /\ node_index \in NextNodes
    /\ calls < MaxRunCalls
    /\ WillMove(self, node_index, currentResolution)
    /\ LET bestCommunity == updateBestCommunity(self, node_index, currentResolution)
           moved == moveNodeTo(self, node_index, bestCommunity)
           modularity == compute_modularity(moved, One)
       IN /\ ~OrigModularityRaises(moved)
          /\ TruthyFloat(self.last_modularity)
          /\ RatLess(modularity, self.last_modularity)
          /\ self' = moved
          /\ prev' = MoveRecord(self, node_index, bestCommunity)
    /\ pc' = "Exception"
    /\ calls' = calls + 1
    /\ UNCHANGED << currentResolution, pending, localChange, someChange, level,
                    edges, randomize, shuffled, returned >>

\* end of a pass that moved something: the inner while loop goes round
NextPass ==
    /\ pc = "visit"
    /\ pending = {}
    /\ localChange
    /\ pending' = DOMAIN self.communities
    /\ shuffled' \in shuffle(Range(Cardinality(DOMAIN self.communities)))
    /\ localChange' = FALSE
    /\ someChange' = TRUE
    /\ prev' = [NoOp EXCEPT !.op = "pass"]
    /\ UNCHANGED << self, currentResolution, pc, level, calls, edges, randomize, returned >>

\* Aggregate that also follows a first pass without a move
Aggregate_after_first_pass ==
    /\ pc = "visit"
    /\ pending = {}
    /\ ~localChange
    /\ calls < MaxRunCalls
    /\ self' = merge_nodes(self)
    /\ pending' = DOMAIN self'.communities
    /\ shuffled' \in shuffle(Range(Cardinality(DOMAIN self'.communities)))
    /\ someChange' = FALSE
    /\ level' = level + 1
    /\ calls' = calls + 1
    /\ prev' = [NoOp EXCEPT !.op = "merge"]
    /\ UNCHANGED << currentResolution, pc, localChange, edges, randomize, returned >>

\* end of a pass without a move, after one with a move: merge and start over
Aggregate ==
    /\ pc = "visit"
    /\ pending = {}
    /\ ~localChange
    /\ someChange
    /\ calls < MaxRunCalls
    /\ self' = merge_nodes(self)
    /\ pending' = DOMAIN self'.communities
    /\ shuffled' \in shuffle(Range(Cardinality(DOMAIN self'.communities)))
    /\ someChange' = FALSE
    /\ level' = level + 1
    /\ calls' = calls + 1
    /\ prev' = [NoOp EXCEPT !.op = "merge"]
    /\ UNCHANGED << currentResolution, pc, localChange, edges, randomize, returned >>

\* end of a first pass without a move: both while loops end
Finish ==
    /\ pc = "visit"
    /\ pending = {}
    /\ ~localChange
    /\ ~someChange
    /\ pc' = "done"
    /\ returned' = PyNone
    /\ prev' = [NoOp EXCEPT !.op = "return"]
    /\ UNCHANGED << self, currentResolution, pending, localChange, someChange, level, calls,
                    edges, randomize, shuffled >>

NextRun ==
    \/ \E node_index \in NextNodes : VisitStay(node_index)
    \/ \E node_index \in NextNodes : VisitMove(node_index)
    \/ \E node_index \in NextNodes : VisitMoveKeyError(node_index)
    \/ \E node_index \in NextNodes : VisitMoveRegression(node_index)
    \/ NextPass
    \/ Aggregate
    \/ Finish

\* ============================== the object used directly, as __main__ does
InitApi ==
    /\ \E nodes_len \in 0..ApiMaxNodes : \E el \in EdgeLists(nodes_len) :
          /\ edges \in Weighted(el)
          /\ self = StructureInit(nodes_len, edges)
    /\ currentResolution = One
    /\ randomize = TRUE
    /\ pc = "api"
    /\ pending = {}
    /\ shuffled = << >>
    /\ localChange = FALSE
    /\ someChange = FALSE
    /\ level = 0
    /\ calls = 0
    /\ prev = NoOp
    /\ returned = PyNone

ApiMove(node_index, community) ==
    /\ pc = "api"
    /\ calls < MaxCalls
    /\ node_index \in DOMAIN self.node_community
    /\ community \in DOMAIN self.communities
    /\ community # self.node_community[node_index]
    /\ self' = moveNodeTo(self, node_index, community)
    /\ prev' = MoveRecord(self, node_index, community)
    /\ calls' = calls + 1
    /\ UNCHANGED << currentResolution, pc, pending, localChange, someChange, level,
                    edges, randomize, shuffled, returned >>

ApiMerge ==
    /\ pc = "api"
    /\ calls < MaxCalls
    /\ self' = merge_nodes(self)
    /\ level' = level + 1
    /\ calls' = calls + 1
    /\ prev' = [NoOp EXCEPT !.op = "merge"]
    /\ UNCHANGED << currentResolution, pc, pending, localChange, someChange,
                    edges, randomize, shuffled, returned >>

NextApi ==
    \/ \E node_index \in DOMAIN self.node_community :
           \E community \in DOMAIN self.communities : ApiMove(node_index, community)
    \/ ApiMerge

\* ========================================================== specification
\* a constructed object is either run by Structure.louvain or used directly
Init == InitRun \/ InitDemo \/ InitComplex \/ InitApi

Next == NextRun \/ NextApi

Spec == Init /\ [][Next]_vars

\* current-level nodes and modularity as the run computes it (line 84)
CurrentNodes == DOMAIN self.node_community
Modularity(S) == compute_modularity(S, One)

\* a step that moves a node / a step that aggregates
IsMoveStep == prev'.op = "move" /\ self' # self
IsMergeStep == level' = level + 1

\* ================================================================= claims

\* C1  Weight conservation: every aggregation step of a run, the first one
\* and every later one, leaves the global scalar m as it was before
\* merge_nodes.
C1_WeightConservation == [][(pc = "visit" /\ IsMergeStep) => self'.m = self.m]_vars

\* C2  Delta correctness: in every reachable state, for every node v and
\* every community c other than v's own, the modularity recomputed after
\* moveNodeTo(v, c) equals the modularity before it plus
\* q(v, c, shared_degree(v, c), resolution).
C2_DeltaCorrectness ==
    self.m # 0 =>
        \A resolution \in Resolutions : \A v \in CurrentNodes :
            \A c \in DOMAIN self.communities \ {self.node_community[v]} :
                RatEq(compute_modularity(moveNodeTo(self, v, c), resolution),
                      RatAdd(compute_modularity(self, resolution),
                             q(self, v, c, shared_degree(self, v, c), resolution)))

\* C3  Monotonicity: every move the local moving phase performs, at any
\* resolution and level, leaves the modularity of the partition not
\* smaller than it was before the move.
C3_Monotonicity ==
    [][(pc = "visit" /\ IsMoveStep) => ~RatLess(Modularity(self'), Modularity(self))]_vars

\* C4  Cross-level agreement: in every state reached by moves and
\* aggregations, compute_modularity over the current level equals
\* compute_orig_modularity over the original edges mapped through the
\* origin map.
C4_CrossLevelAgreement ==
    ~OrigModularityRaises(self) =>
        RatEq(compute_modularity(self, One), compute_orig_modularity(self, One))

\* C5  Cache consistency of NodeCommunityWeights: after any moves and
\* aggregations, node_communities_weights[v] has an entry for community c
\* exactly when v has an edge to a current member of c, the entry equals
\* shared_degree(v, c) computed from scratch, and no entry is zero.
C5_CacheConsistency ==
    /\ DOMAIN self.node_communities_weights = CurrentNodes
    /\ \A v \in CurrentNodes :
        LET d == self.node_communities_weights[v]
        IN /\ \A i, j \in 1..Len(d) : d[i][1] = d[j][1] => i = j
           /\ \A i \in 1..Len(d) :
                  d[i][2] # 0 /\ d[i][2] = shared_degree(self, v, d[i][1])
           /\ \A c \in DOMAIN self.communities :
                  DictHas(d, c) <=>
                      \E k \in 1..Len(self.edges[v]) :
                          \E p \in 1..Len(self.communities[c].nodes) :
                              self.edges[v][k][1] = self.communities[c].nodes[p]

\* C5 witness: after an aggregation a move has emptied a community and a
\* neighbour of the moved node lost its entry for it while keeping others.
C5_Witness ==
    /\ level >= 1
    /\ prev.op = "move"
    /\ \E k \in 1..Len(self.edges[prev.node]) :
          LET d == self.node_communities_weights[self.edges[prev.node][k][1]]
          IN ~DictHas(d, prev.from) /\ DictHas(d, prev.to) /\ Len(d) >= 2

\* C6  In every state between operations the total_degree of all
\* communities sums to the global scalar m.
C6_TotalDegreeSumIsM ==
    SumFn([c \in DOMAIN self.communities |-> self.communities[c].total_degree]) = self.m

\* C7  Partition invariant: every current-level node is in the member list
\* of exactly one community, once, that community is node_community[node],
\* and the member lists together have as many entries as there are nodes.
C7_Partition ==
    /\ DOMAIN self.communities = CurrentNodes
    /\ \A v \in CurrentNodes :
          /\ { c \in DOMAIN self.communities :
                  \E p \in 1..Len(self.communities[c].nodes) :
                      self.communities[c].nodes[p] = v } = { self.node_community[v] }
          /\ Cardinality({ p \in 1..Len(self.communities[self.node_community[v]].nodes) :
                              self.communities[self.node_community[v]].nodes[p] = v }) = 1
    /\ SumFn([c \in DOMAIN self.communities |-> Len(self.communities[c].nodes)])
           = Cardinality(CurrentNodes)

\* C7 witness: after an aggregation a node has left its community empty
\* and joined one that has other members.
C7_Witness ==
    /\ level >= 1
    /\ prev.op = "move"
    /\ Len(self.communities[prev.from].nodes) = 0
    /\ Len(self.communities[prev.to].nodes) >= 2

\* C8 as claimed: origin_nodes_community has one entry per original node and
\* every id in it is a real community that has at least one member.
C8_CoverInvariant ==
    /\ DOMAIN self.origin_nodes_community = DOMAIN self.orig_edges
    /\ \A i \in DOMAIN self.origin_nodes_community :
          /\ self.origin_nodes_community[i] \in DOMAIN self.communities
          /\ Len(self.communities[self.origin_nodes_community[i]].nodes) >= 1

\* C8 amended: origin_nodes_community has one entry per original node,
\* every id in it is a current-level node, and the community of that node,
\* node_community[id], is a real community with at least one member.
C8_CoverThroughNodeCommunity ==
    /\ DOMAIN self.origin_nodes_community = DOMAIN self.orig_edges
    /\ \A i \in DOMAIN self.origin_nodes_community :
          /\ self.origin_nodes_community[i] \in CurrentNodes
          /\ self.node_community[self.origin_nodes_community[i]] \in DOMAIN self.communities
          /\ Len(self.communities[self.node_community[self.origin_nodes_community[i]]].nodes) >= 1

\* C8 witness: in the middle of a pass after an aggregation that dropped a
\* community, a move has left an id of the origin map without members.
C8_Witness ==
    /\ pc = "visit"
    /\ pending # {}
    /\ level >= 1
    /\ Cardinality(CurrentNodes) < Cardinality(DOMAIN self.orig_edges)
    /\ prev.op = "move"
    /\ \E i \in DOMAIN self.origin_nodes_community :
          Len(self.communities[self.origin_nodes_community[i]].nodes) = 0

\* C9  Fatal abort on regression: whenever a move of a run leaves the
\* modularity smaller than it was before that move, the run is aborted
\* with an error by that very step.
C9_AbortOnRegression ==
    [][(pc = "visit" /\ IsMoveStep /\ RatLess(Modularity(self'), Modularity(self)))
          => pc' \in {"Exception", "KeyError"}]_vars

\* C10  Termination: a run with resolution 1.0 stops only by reaching a
\* pass without a move and returning; it never stops in any other way.
C10_Termination ==
    (currentResolution = One /\ pc \notin {"visit", "api"}) => pc = "done"

\* C11  Determinism: with randomize=false the visiting order of every pass
\* is fixed, the unshuffled list(range(n)), so that two runs on the same
\* input visit the nodes in the same order, make the same moves and end
\* with the same partition and modularity: every visit of such a run takes
\* the smallest node not yet visited in the pass.
C11_Determinism ==
    [][(pc = "visit" /\ ~randomize /\ prev'.op \in {"stay", "move"})
          => \A v \in pending : prev'.node <= v]_vars

\* C12  The entry point returns, when the run finishes, the mapping from
\* every original node to its final community: the origin map at
\* termination.
C12_ReturnsOriginMap ==
    pc = "done" => (~returned.none /\ returned.value = self.origin_nodes_community)

\* C13  Degenerate input: a run on an empty edge list (nodes_len 0
\* included) makes no move and no aggregation and raises no error, every
\* node stays in its own community, the origin map is the identity, and the
\* modularity is 0.
C13_DegenerateInput ==
    (pc # "api" /\ edges = << >>) =>
        /\ pc \in {"visit", "done"}
        /\ prev.op \notin {"move", "merge"}
        /\ level = 0
        /\ self.node_community = [i \in DOMAIN self.orig_edges |-> i]
        /\ self.origin_nodes_community = [i \in DOMAIN self.orig_edges |-> i]
        /\ \A c \in DOMAIN self.communities : self.communities[c].nodes = <<c>>
        /\ compute_modularity(self, One) = Zero
        /\ compute_modularity(self, currentResolution) = Zero

\* C13 witness: a run on three nodes without an edge has returned.
C13_Witness ==
    /\ pc = "done"
    /\ edges = << >>
    /\ Cardinality(DOMAIN self.orig_edges) = 3
    /\ currentResolution # One

\* C14  The caller's resolution is used unchanged everywhere in the run:
\* the community a node moves to is the best one by the deltaQ scores at
\* that resolution, and the modularity recorded after the move, the one
\* the regression check compares, is the modularity at that resolution.
C14_ResolutionThreaded ==
    [][(pc = "visit" /\ pc' = "visit" /\ IsMoveStep) =>
          /\ prev'.to = updateBestCommunity(self, prev'.node, currentResolution)
          /\ RatEq(self'.last_modularity, compute_modularity(self', currentResolution))]_vars

\* the run of __main__ on the 6-node graph: resolution 1.0, randomized order
DemoRun == pc # "api" /\ edges = DemoEdges /\ currentResolution = One /\ randomize

\* C15  On the 6-node reference graph with resolution 1.0 and randomized
\* visiting order, whatever order each shuffle produces: the run raises no
\* error, it returns with exactly 2 communities, and it terminates: no
\* move lowers the modularity, and the run never comes to the number of
\* moveNodeTo and merge_nodes calls at which a run is no longer followed.
C15_DemoRun ==
    /\ [](DemoRun => /\ pc \in {"visit", "done"}
                     /\ calls < MaxRunCalls
                     /\ (pc = "done" => Cardinality(DOMAIN self.communities) = 2))
    /\ [][(DemoRun /\ IsMoveStep) => ~RatLess(Modularity(self'), Modularity(self))]_vars

\* C15 witness: the run on the 6-node graph has returned after an
\* aggregation that left two nodes, the communities {0,1,2} and {3,4,5}.
C15_Witness ==
    /\ DemoRun
    /\ pc = "done"
    /\ level = 1
    /\ Cardinality(DOMAIN self.communities) = 2
    /\ self.origin_nodes_community = [i \in 0..5 |-> IF i <= 2 THEN 0 ELSE 1]

\* the last run of __main__: the 16-node graph, resolution 0.414, randomize=False
ComplexRun ==
    pc # "api" /\ edges = ComplexEdges /\ currentResolution = ComplexResolution /\ ~randomize

\* C16  On the 16-node reference graph with resolution 0.414 and
\* randomize=false the run terminates without the modularity-regression
\* error, and when it has returned compute_modularity of the current level
\* equals compute_orig_modularity of the original graph.
C16_ComplexRun ==
    ComplexRun =>
        /\ pc # "Exception"
        /\ calls < MaxRunCalls
        /\ (pc = "done" =>
               RatEq(compute_modularity(self, One), compute_orig_modularity(self, One)))

\* C17  Local optimality at termination: when a run has returned, there is
\* no current-level node v and no community c other than v's own, sharing
\* an edge with v, such that moving v into c would strictly increase the
\* modularity of the partition.
C17_LocalOptimality ==
    pc = "done" =>
        \A v \in CurrentNodes : \A c \in DOMAIN self.communities \ {self.node_community[v]} :
            shared_degree(self, v, c) > 0 =>
                ~RatLess(compute_modularity(self, currentResolution),
                         compute_modularity(moveNodeTo(self, v, c), currentResolution))

\* C18  Input weights are honoured: in a newly constructed object an input
\* edge (u, v, w) stands with weight w in the adjacency of u and of v
\* (with 1.0 when the weight is omitted), every node degree is the sum of
\* the weights of the input edges at the node, and m is twice the sum of
\* the input weights.
C18_WeightsHonoured ==
    LET w(e) == IF Len(e) = 3 THEN e[3] ELSE 1
        at(u) == [i \in { j \in 1..Len(edges) : u \in {edges[j][1], edges[j][2]} } |->
                     w(edges[i])]
    IN prev.op = "init" =>
        /\ \A i \in 1..Len(edges) :
              /\ \E k \in 1..Len(self.edges[edges[i][1]]) :
                    self.edges[edges[i][1]][k] = <<edges[i][2], w(edges[i])>>
              /\ \E k \in 1..Len(self.edges[edges[i][2]]) :
                    self.edges[edges[i][2]][k] = <<edges[i][1], w(edges[i])>>
        /\ \A u \in CurrentNodes : self.node_degrees[u] = SumFn(at(u))
        /\ self.m = 2 * SumFn([i \in 1..Len(edges) |-> w(edges[i])])

\* C19 as claimed: at every level the cached degree of every node is the
\* sum of the weights of its incident edges plus twice the value stored in
\* node_selfreference.
C19_DegreeTwiceSelfReference ==
    \A v \in CurrentNodes :
        self.node_degrees[v] = SumWeights(self.edges[v]) + 2 * self.node_selfreference[v]

\* C19 amended: at every level the cached degree of every node is the sum
\* of the weights of its incident edges plus the value stored in
\* node_selfreference, once: that value already counts every internal edge
\* from both of its ends.
C19_DegreeWithSelfReference ==
    /\ DOMAIN self.node_degrees = CurrentNodes
    /\ \A v \in CurrentNodes :
          self.node_degrees[v] = SumWeights(self.edges[v]) + self.node_selfreference[v]

\* C19 witness: the reference aggregation scenario, node 1 moved into
\* community 0 and the level merged: the new node 0 has the self reference
\* 2, one edge of weight 1 and the degree 3.
C19_Witness ==
    /\ level = 1
    /\ prev.op = "merge"
    /\ 0 \in CurrentNodes
    /\ self.node_selfreference[0] = 2
    /\ self.edges[0] = << <<1, 1>> >>
    /\ self.node_degrees[0] = 3

\* C20  Effect of moveNodeTo(v, t) for t other than v's community o, in a
\* run or called directly: afterwards node_community[v] is t, v is not in
\* the member list of o and is in that of t, total_degree of o has gone
\* down and total_degree of t has gone up by the degree of v, and an o
\* that v was the last member of is empty with total degree 0.
C20_MoveEffect ==
    [][IsMoveStep =>
          LET v == prev'.node
              o == self.node_community[v]
              t == prev'.to
              has(S, c) == \E p \in 1..Len(S.communities[c].nodes) : S.communities[c].nodes[p] = v
          IN /\ t # o
             /\ self'.node_community[v] = t
             /\ ~has(self', o)
             /\ has(self', t)
             /\ self'.communities[o].total_degree
                    = self.communities[o].total_degree - self.node_degrees[v]
             /\ self'.communities[t].total_degree
                    = self.communities[t].total_degree + self.node_degrees[v]
             /\ self'.node_degrees[v] = self.node_degrees[v]
             /\ (Len(self.communities[o].nodes) = 1 =>
                    /\ self'.communities[o].nodes = << >>
                    /\ self'.communities[o].total_degree = 0)]_vars

\* C20 witness: after an aggregation a node that carries a self reference
\* has left its community empty and joined a community that had a member.
C20_Witness ==
    /\ level >= 1
    /\ prev.op = "move"
    /\ prev.alone
    /\ self.node_selfreference[prev.node] > 0
    /\ self.communities[prev.from].total_degree = 0
    /\ self.communities[prev.to].total_degree > self.node_degrees[prev.node]

\* C21  Frame of moveNodeTo(v, t), in a run or called directly: it leaves
\* unchanged every node degree, m, the edge lists, the self-loop weights,
\* the origin map, the number of community slots, the membership and the
\* total degree of every community other than the old and the target one,
\* and the node_communities_weights table of every node that is not a
\* neighbour of v.
C21_MoveFrame ==
    [][IsMoveStep =>
          LET v == prev'.node
              o == prev'.from
              t == prev'.to
              neighbours == { self.edges[v][k][1] : k \in 1..Len(self.edges[v]) }
          IN /\ self'.node_degrees = self.node_degrees
             /\ self'.m = self.m
             /\ self'.edges = self.edges
             /\ self'.orig_edges = self.orig_edges
             /\ self'.node_selfreference = self.node_selfreference
             /\ self'.origin_nodes_community = self.origin_nodes_community
             /\ DOMAIN self'.communities = DOMAIN self.communities
             /\ \A c \in DOMAIN self.communities \ {o, t} :
                    self'.communities[c] = self.communities[c]
             /\ \A u \in CurrentNodes \ neighbours :
                    self'.node_communities_weights[u] = self.node_communities_weights[u]]_vars

\* C21 witness: after an aggregation a node has moved while a third
\* community had a member with a self reference, and a node that is not
\* its neighbour has a table with an entry.
C21_Witness ==
    /\ level >= 1
    /\ prev.op = "move"
    /\ \E c \in DOMAIN self.communities \ {prev.from, prev.to} :
          /\ Len(self.communities[c].nodes) >= 1
          /\ self.communities[c].total_degree > 0
    /\ \E u \in CurrentNodes \ {prev.node} :
          /\ \A k \in 1..Len(self.edges[prev.node]) : self.edges[prev.node][k][1] # u
          /\ self.node_selfreference[u] > 0
          /\ Len(self.node_communities_weights[u]) >= 1

\* C22  Aggregation renumbering: merge_nodes gives the K non-empty
\* communities the dense ids 0..K-1 in ascending order of their old ids and
\* drops the empty ones, leaves exactly K communities each holding the
\* single node with its own id, and rewrites the origin map so that two
\* original nodes get the same new id exactly when they were in the same
\* community just before the aggregation.
C22_Renumbering ==
    [][IsMergeStep =>
          LET nonempty == { c \in DOMAIN self.communities : Len(self.communities[c].nodes) > 0 }
              K == Cardinality(nonempty)
              newid(c) == Cardinality({ d \in nonempty : d < c })
              was(i) == self.node_community[self.origin_nodes_community[i]]
              orig == DOMAIN self.origin_nodes_community
          IN /\ DOMAIN self'.communities = Nodes(K)
             /\ \A j \in Nodes(K) :
                    /\ self'.communities[j].id = j
                    /\ self'.communities[j].nodes = <<j>>
             /\ self'.node_community = [j \in Nodes(K) |-> j]
             /\ DOMAIN self'.origin_nodes_community = orig
             /\ \A i \in orig : self'.origin_nodes_community[i] = newid(was(i))
             /\ \A i, j \in orig :
                    self'.origin_nodes_community[i] = self'.origin_nodes_community[j]
                        <=> was(i) = was(j)]_vars

\* C22 witness: a second aggregation has left at least two nodes, with two
\* original nodes under one id and two under different ids.
C22_Witness ==
    /\ level = 2
    /\ prev.op = "merge"
    /\ Cardinality(CurrentNodes) >= 2
    /\ Cardinality(CurrentNodes) < Cardinality(DOMAIN self.orig_edges)
    /\ \E i, j \in DOMAIN self.origin_nodes_community :
          i # j /\ self.origin_nodes_community[i] = self.origin_nodes_community[j]
    /\ \E i, j \in DOMAIN self.origin_nodes_community :
          self.origin_nodes_community[i] # self.origin_nodes_community[j]

\* C23  Aggregation weights: after merge_nodes, for every pair of distinct
\* new nodes a and b the weight of the edge a-b is the sum of the weights
\* of all previous-level edges between a member of a and a member of b
\* (no edge entry when that sum is 0), and the self-loop weight of a is the
\* sum of its members' previous self-loop weights plus the weight of every
\* previous-level edge between two of its members, counted once from each
\* endpoint.
C23_AggregationWeights ==
    [][IsMergeStep =>
          LET nonempty == { c \in DOMAIN self.communities : Len(self.communities[c].nodes) > 0 }
              newid(c) == Cardinality({ d \in nonempty : d < c })
              members(a) == { u \in CurrentNodes : newid(self.node_community[u]) = a }
              between(a, b) ==
                  SumFn([u \in members(a) |->
                            SumWeights(SelectSeq(self.edges[u],
                                LAMBDA e : newid(self.node_community[e[1]]) = b))])
              entries(a, b) == { k \in 1..Len(self'.edges[a]) : self'.edges[a][k][1] = b }
          IN \A a \in DOMAIN self'.node_community :
                /\ DOMAIN self'.edges = DOMAIN self'.node_community
                /\ entries(a, a) = {}
                /\ \A b \in DOMAIN self'.node_community \ {a} :
                      IF between(a, b) = 0 THEN entries(a, b) = {}
                      ELSE /\ Cardinality(entries(a, b)) = 1
                           /\ \A k \in entries(a, b) : self'.edges[a][k][2] = between(a, b)
                /\ self'.node_selfreference[a] =
                       SumFn([u \in members(a) |-> self.node_selfreference[u]]) + between(a, a)]_vars

\* C23 witness: a second aggregation has left a node whose self reference
\* counts at least two internal edges, and an edge between two different
\* nodes.
C23_Witness ==
    /\ level = 2
    /\ prev.op = "merge"
    /\ \E a \in CurrentNodes : self.node_selfreference[a] >= 4
    /\ \E a \in CurrentNodes : Len(self.edges[a]) >= 1

\* C24  Initial caches: right after construction from an edge list, every
\* node is alone in the community with its own id, the degree of a node is
\* the number of edges incident to it, the total degree of its community
\* equals that degree, and the keys of node_communities_weights[v] are
\* exactly the neighbours of v, each with the value shared_degree(v,
\* neighbour).
C24_InitialCaches ==
    prev.op = "init" =>
        /\ DOMAIN self.communities = CurrentNodes
        /\ DOMAIN self.node_degrees = CurrentNodes
        /\ DOMAIN self.node_communities_weights = CurrentNodes
        /\ \A v \in CurrentNodes :
              LET incident == { i \in 1..Len(edges) : v \in {edges[i][1], edges[i][2]} }
                  neighbours == { IF edges[i][1] = v THEN edges[i][2] ELSE edges[i][1] :
                                     i \in incident }
                  d == self.node_communities_weights[v]
              IN /\ self.node_community[v] = v
                 /\ self.communities[v].id = v
                 /\ self.communities[v].nodes = <<v>>
                 /\ self.node_degrees[v] = Cardinality(incident)
                 /\ self.communities[v].total_degree = self.node_degrees[v]
                 /\ { d[i][1] : i \in 1..Len(d) } = neighbours
                 /\ \A i, j \in 1..Len(d) : d[i][1] = d[j][1] => i = j
                 /\ \A i \in 1..Len(d) : d[i][2] = shared_degree(self, v, d[i][1])

\* C24 witness: the object constructed from the 6-node graph: degrees 2, 1
\* and 3 of the nodes 0, 1 and 3, node 0 with the keys 1 and 2, no edge
\* shared by node 2 and community 4.
C24_Witness ==
    /\ prev.op = "init"
    /\ edges = DemoEdges
    /\ self.node_degrees[0] = 2 /\ self.node_degrees[1] = 1 /\ self.node_degrees[3] = 3
    /\ self.communities[0].total_degree = 2
    /\ self.communities[3].total_degree = 3
    /\ self.node_communities_weights[0] = << <<1, 1>>, <<2, 1>> >>
    /\ shared_degree(self, 0, 2) = 1
    /\ shared_degree(self, 2, 4) = 0

\* C25  Move rule: when a node is visited in a pass and the candidate
\* community with the maximal deltaQ score differs from the node's current
\* community, the node is moved to that community, whatever the id of the
\* target in [0, N), id 0 included: a visit leaves the node where it is
\* only if there is no best candidate or the best one is its own community.
C25_MoveRule ==
    [][(pc = "visit" /\ prev'.op = "stay") =>
          LET bestCommunity == updateBestCommunity(self, prev'.node, currentResolution)
          IN bestCommunity = NoBest \/ bestCommunity = self.node_community[prev'.node]]_vars

\* C26  Only communities with which the visited node has strictly positive
\* shared edge weight are scored as candidates: the best community of a
\* node of a run, when there is one, shares an edge with it, and in no run
\* is a node moved into a community that contains none of its neighbours.
C26_CandidatesShareAnEdge ==
    /\ [](pc = "visit" =>
             \A v \in CurrentNodes :
                 updateBestCommunity(self, v, currentResolution) # NoBest =>
                     shared_degree(self, v, updateBestCommunity(self, v, currentResolution)) > 0)
    /\ [][(pc = "visit" /\ IsMoveStep) =>
             /\ shared_degree(self, prev'.node, prev'.to) > 0
             /\ \E k \in 1..Len(self.edges[prev'.node]) :
                   \E p \in 1..Len(self.communities[prev'.to].nodes) :
                       self.edges[prev'.node][k][1] = self.communities[prev'.to].nodes[p]]_vars

\* C26 witness: after an aggregation a node of a run has moved while a
\* third community had members and none of them was its neighbour.
C26_Witness ==
    /\ pc = "visit"
    /\ level >= 1
    /\ prev.op = "move"
    /\ shared_degree(self, prev.node, prev.to) > 0
    /\ \E c \in DOMAIN self.communities \ {prev.from, prev.to} :
          /\ Len(self.communities[c].nodes) >= 1
          /\ shared_degree(self, prev.node, c) = 0

\* the candidates updateBestCommunity scores for node v: the positions of
\* node_communities_weights[v] with a weight > 0, their scores, and the
\* first position that has the maximal score
Scored(v) ==
    { i \in 1..Len(self.node_communities_weights[v]) :
         self.node_communities_weights[v][i][2] > 0 }
Score(v, i) ==
    q(self, v, self.node_communities_weights[v][i][1],
      self.node_communities_weights[v][i][2], currentResolution)
MaxScored(v) ==
    { i \in Scored(v) : \A j \in Scored(v) : ~RatLess(Score(v, i), Score(v, j)) }
FirstMax(v) == CHOOSE i \in MaxScored(v) : \A j \in MaxScored(v) : i <= j

\* C27 as claimed: whenever several candidate communities of a node have
\* the same maximal deltaQ score, updateBestCommunity selects the one met
\* first in the iteration order of node_communities_weights[v].
C27_FirstMaximumSelected ==
    \A v \in CurrentNodes :
        Cardinality(MaxScored(v)) >= 2 =>
            updateBestCommunity(self, v, currentResolution)
                = self.node_communities_weights[v][FirstMax(v)][1]

\* C27 amended: the running best starts at 0 and a candidate replaces it
\* only if its score is strictly greater.  So when the maximal score of the
\* candidates is strictly positive, the candidate met first with that score
\* is selected, tie or not, and when no candidate has a strictly positive
\* score none is selected.
C27_FirstPositiveMaximumSelected ==
    \A v \in CurrentNodes :
        IF Scored(v) # {} /\ RatLess(Zero, Score(v, FirstMax(v)))
        THEN updateBestCommunity(self, v, currentResolution)
                 = self.node_communities_weights[v][FirstMax(v)][1]
        ELSE updateBestCommunity(self, v, currentResolution) = NoBest

\* C27 witness: a node not yet visited in a pass has two candidates with
\* the same strictly positive maximal score, and the one met first, the
\* best community, has the larger id.
C27_Witness ==
    /\ pc = "visit"
    /\ \E v \in pending :
          /\ Cardinality(MaxScored(v)) >= 2
          /\ RatLess(Zero, Score(v, FirstMax(v)))
          /\ \E j \in MaxScored(v) :
                self.node_communities_weights[v][j][1]
                    < self.node_communities_weights[v][FirstMax(v)][1]
          /\ updateBestCommunity(self, v, currentResolution)
                 = self.node_communities_weights[v][FirstMax(v)][1]

\* C28  Stay baseline: the deltaQ score of a node for its own community is
\* 0 when the node is the only member, and otherwise is computed against
\* the total degree of the community minus the node's own degree; and a
\* node whose own community is among its candidates is moved only to a
\* community whose score is strictly greater than that stay score.
C28_StayBaseline ==
    /\ [](\A v \in CurrentNodes :
             LET c == self.node_community[v]
                 shared == shared_degree(self, v, c)
                 d_i == self.node_degrees[v]
                 d_j == self.communities[c].total_degree - d_i
                 stay == q(self, v, c, shared, currentResolution)
             IN IF Len(self.communities[c].nodes) = 1 THEN stay = Zero
                ELSE self.m # 0 =>
                        RatEq(stay, << currentResolution[1] * 2 * shared * self.m
                                           - currentResolution[2] * 2 * d_i * d_j,
                                       currentResolution[2] * self.m * self.m >>))
    /\ [][(pc = "visit" /\ IsMoveStep /\ shared_degree(self, prev'.node, prev'.from) > 0) =>
             RatLess(q(self, prev'.node, prev'.from,
                       shared_degree(self, prev'.node, prev'.from), currentResolution),
                     q(self, prev'.node, prev'.to,
                       shared_degree(self, prev'.node, prev'.to), currentResolution))]_vars

\* C29  Pass order: every pass visits each current-level node exactly once:
\* a visit takes a node not yet visited in the pass, a pass ends only when
\* no node is left, and the next pass starts with every node; with
\* randomize=false the nodes are taken in ascending order of their ids, and
\* only with randomize=true in a shuffled order.
C29_PassOrder ==
    [][pc = "visit" =>
          /\ prev'.op \in {"stay", "move"} =>
                /\ prev'.node \in pending
                /\ (pc' = "visit" => pending' = pending \ {prev'.node})
                /\ (~randomize => prev'.node = CHOOSE v \in pending : \A u \in pending : v <= u)
          /\ prev'.op \in {"pass", "merge", "return"} => pending = {}
          /\ prev'.op \in {"pass", "merge"} => pending' = DOMAIN self'.node_community]_vars

\* C30  Phase ordering.  localChange tells whether the pass under way has
\* made a move and someChange whether an earlier pass at this level has.
\* An aggregation of a run is performed only right after the last visit of
\* a pass that made no move, and only if an earlier pass at that level
\* made one; when the first pass at a level makes no move the run returns
\* without aggregating; no move is made between the converging pass and
\* the aggregation.
C30_PhaseOrdering ==
    [][pc = "visit" =>
          /\ (prev'.op = "move" /\ pc' = "visit") => (localChange' /\ someChange' = someChange)
          /\ prev'.op = "stay" => (localChange' = localChange /\ someChange' = someChange)
          /\ prev'.op = "pass" =>
                (pending = {} /\ localChange /\ ~localChange' /\ someChange' /\ level' = level)
          /\ prev'.op = "merge" =>
                /\ pending = {}
                /\ ~localChange
                /\ someChange
                /\ prev.op = "stay"
                /\ ~localChange' /\ ~someChange'
          /\ prev'.op = "return" =>
                /\ pending = {}
                /\ ~localChange
                /\ ~someChange
                /\ prev.op \in {"stay", "init", "merge"}
                /\ level' = level /\ self' = self]_vars

\* C30 witness: a run has aggregated twice and returned after the first
\* pass at the third level, which made no move.
C30_Witness ==
    /\ pc = "done"
    /\ level = 2
    /\ prev.op = "return"
    /\ ~someChange
    /\ Cardinality(CurrentNodes) >= 2

\* C31  Community total-degree cache: after any sequence of moveNodeTo
\* calls and aggregations, in a run or made directly, the cached
\* total_degree of every community equals the sum of the node degrees of
\* its current members, as community_total_degree_compute recomputes it.
C31_TotalDegreeCache ==
    \A c \in DOMAIN self.communities :
        /\ self.communities[c].total_degree = community_total_degree_compute(self, c)
        /\ self.communities[c].total_degree =
               SumFn([u \in { x \in CurrentNodes : self.node_community[x] = c } |->
                         self.node_degrees[u]])

\* C31 witness: after an aggregation and a move a community has two
\* members of different degrees, one of them with a self reference, and the
\* community the moved node left is empty.
C31_Witness ==
    /\ level >= 1
    /\ prev.op = "move"
    /\ self.communities[prev.from].nodes = << >>
    /\ Len(self.communities[prev.to].nodes) = 2
    /\ \E u, w \in CurrentNodes :
          /\ self.node_community[u] = prev.to
          /\ self.node_community[w] = prev.to
          /\ self.node_degrees[u] # self.node_degrees[w]
          /\ self.node_selfreference[u] > 0

\* C32  Aggregation preserves modularity: for every aggregation of a run,
\* at the first and at later levels, the modularity of the current level
\* computed right after merge_nodes equals the one computed right before
\* it, so that last_modularity stays a valid baseline for the first move
\* of the next level.
C32_AggregationKeepsModularity ==
    [][(pc = "visit" /\ IsMergeStep) =>
          /\ RatEq(Modularity(self'), Modularity(self))
          /\ self'.last_modularity = self.last_modularity
          /\ (self.last_modularity # None => RatEq(self'.last_modularity, Modularity(self')))]_vars

\* the communities of S that have a member
NonEmpty(S) == { c \in DOMAIN S.communities : Len(S.communities[c].nodes) > 0 }

\* C33  Within one level of a run the number of non-empty communities
\* never increases, no move putting a node into an empty community; every
\* aggregation the driver performs leaves strictly fewer current-level
\* nodes than the level it replaces; so a run on N nodes performs at most
\* N-1 aggregations: the nodes of the level and the aggregations made so
\* far never count more than N together.
C33_LevelsShrink ==
    /\ [](pc # "api" =>
             /\ Cardinality(CurrentNodes) + level <= Cardinality(DOMAIN self.orig_edges)
             /\ (Cardinality(DOMAIN self.orig_edges) >= 1 =>
                    level <= Cardinality(DOMAIN self.orig_edges) - 1))
    /\ [][pc = "visit" =>
             /\ IsMoveStep =>
                   /\ Len(self.communities[prev'.to].nodes) >= 1
                   /\ Cardinality(NonEmpty(self')) <= Cardinality(NonEmpty(self))
             /\ prev'.op = "stay" => NonEmpty(self') = NonEmpty(self)
             /\ IsMergeStep =>
                   /\ Cardinality(DOMAIN self'.node_community) = Cardinality(NonEmpty(self))
                   /\ Cardinality(DOMAIN self'.node_community) < Cardinality(CurrentNodes)]_vars

\* C33 witness: a run on four nodes has just made its second aggregation,
\* each one after moves at its level, and is left with one node.
C33_Witness ==
    /\ pc = "visit"
    /\ prev.op = "merge"
    /\ level = 2
    /\ Cardinality(DOMAIN self.orig_edges) = 4
    /\ Cardinality(CurrentNodes) = 1

\* C34  A run on an input in which some node has no incident edge while
\* other nodes are connected completes normally: no error is raised, the
\* origin-level modularity evaluated after each move yields a value, and
\* in the end the isolated node is alone in its own community.
C34_IsolatedNode ==
    LET orig == DOMAIN self.orig_edges
        isolated == { u \in orig : self.orig_edges[u] = << >> }
    IN (pc # "api" /\ isolated # {} /\ isolated # orig) =>
          /\ pc \in {"visit", "done"}
          /\ (prev.op = "move" => ~OrigModularityRaises(self))
          /\ (pc = "done" =>
                 \A u \in isolated : \A w \in orig \ {u} : CurrentCom(self, w) # CurrentCom(self, u))

\* the connected component of the input graph that holds the nodes of C
RECURSIVE Component(_, _)
Component(adj, C) ==
    LET grown == C \cup UNION { { adj[x][k][1] : k \in 1..Len(adj[x]) } : x \in C }
    IN IF grown = C THEN C ELSE Component(adj, grown)

\* C35  In every state of a run, any two original nodes that are in the
\* same community, through the origin map and node_community, lie in the
\* same connected component of the input graph: no partition of a run,
\* the final one included, joins nodes of different components.
C35_ComponentsNotJoined ==
    pc # "api" =>
        \A u, w \in DOMAIN self.origin_nodes_community :
            CurrentCom(self, u) = CurrentCom(self, w) => w \in Component(self.orig_edges, {u})

\* C35 witness: the run on the two separate edges 0-1 and 2-3 has returned
\* after an aggregation with the two components as its two communities.
C35_Witness ==
    /\ pc = "done"
    /\ edges = << <<0, 1>>, <<2, 3>> >>
    /\ level = 1
    /\ Cardinality(CurrentNodes) = 2
    /\ CurrentCom(self, 0) = CurrentCom(self, 1)
    /\ CurrentCom(self, 2) = CurrentCom(self, 3)
    /\ CurrentCom(self, 0) # CurrentCom(self, 2)

====
